---- MODULE Spec2Model ----
(***************************************************************************)
(* Model of pkg/storage/batch.go: the batched, overlap-aware chunk         *)
(* iteration engine (batchChunkIterator, logBatchIterator,                 *)
(* sampleBatchIterator), and of sizedSeriesIter of                         *)
(* pkg/bloombuild/planner/strategies/chunksize.go.                         *)
(*                                                                         *)
(* Chunk spans are model.Time values (milliseconds); window bounds and the *)
(* query bound are time.Time values, kept here as nanoseconds.             *)
(***************************************************************************)
EXTENDS Integers, Sequences, FiniteSets, TLC

\* ------------------------------------------------------------------ bounds
MaxT == 2          \* chunk From/Through range over 0..MaxT milliseconds
MaxChunks == 3     \* chunks of one query in the planning specification
MaxConcChunks == 2 \* chunks of one query in the concurrent specifications
MaxConcT == 1      \* chunk time range in the concurrent specifications
MaxItems == 2      \* entries held by one window's merged iterator

\* ------------------------------------------------- program constants
\* model.Time.UnixNano(): milliseconds to nanoseconds
NsPerMs == 1000000
\* time.Nanosecond
Nanosecond == 1

FORWARD == "FORWARD"
BACKWARD == "BACKWARD"

VARIABLES
    direction,        \* it.direction
    start,            \* it.start (ns)
    end,              \* it.end (ns)
    batchSize,        \* it.batchSize
    stream,           \* "log" (logBatchIterator) or "sample" (sampleBatchIterator)
    input,            \* the chunks handed to newBatchChunkIterator, sorted
    chunks,           \* it.chunks.chunks: the remaining queue
    lastOverlapping,  \* it.lastOverlapping
    windows,          \* history: every non-nil, error-free window nextBatch returned
    steps,            \* history: number of nextBatch calls
    begun,            \* it.begun
    cancelled,        \* it.ctx.Err() != nil
    closed,           \* close(it.next) has run
    buf,              \* values sent on it.next and not yet received
    pcP,              \* planner goroutine: "idle", "loop", "select", "done"
    res,              \* the value of it.nextBatch() the planner is about to send
    pcC,              \* consumer: "new" (iterator not built yet), "idle" (between
                      \* calls of Next), "recv" (blocked in <-it.next), "build"
                      \* (in newChunksIterator)
    next,             \* next of Next: the window newChunksIterator is reading
    curr,             \* it.curr
    err,              \* it.err
    lastNext,         \* result of the last completed call of Next: "true", "false"
    crashed,          \* the process died of an unrecovered panic
    computed,         \* history: windows computed by the planner goroutine
    received,         \* history: values the consumer received from the planner
    callCancelled,    \* history: the last call of Next began after cancellation
    lastRecvErr,      \* history: error of the window the last call of Next received
    lastOutcome,      \* history: how the fetch of the last planning step ended
    fchunks,          \* the chunks argument of fetchChunkBySeries
    matching,         \* fingerprints of the series whose labels satisfy every matcher
    flagged,          \* fingerprints of the series chunkFilterer.ShouldFilter flags
    data,             \* ids of the chunks with Chunk.Data != nil
    isValid,          \* ids of the chunks with IsValid set
    pcF,              \* position of fetchChunkBySeries
    chksBySeries,     \* chksBySeries of fetchChunkBySeries
    toLoad,           \* ids of toLoad of loadFirstChunks
    tasks,            \* the goroutines of fetchLazyChunks, by call and fetcher
    lastErr,          \* lastErr of the last call of fetchLazyChunks
    firstErr,         \* history: the first non-nil error the fan-in of that call received
    passed,           \* history: ids of the chunks passed to Fetcher.FetchChunks
    counters,         \* metrics.series and metrics.chunks, by status
    fres,             \* what fetchChunkBySeries returned
    sized             \* the call of sizedSeriesIter: its arguments, its locals
                      \* (batches, currentBatch, the loop positions), its context
                      \* and what it returned

cfgVars == <<direction, start, end, batchSize, stream, input>>
planVars == <<chunks, lastOverlapping, windows, steps>>
concVars == <<begun, cancelled, closed, buf, pcP, res, pcC, next, curr, err, lastNext,
              crashed, computed, received, callCancelled, lastRecvErr, lastOutcome>>
fetchVars == <<fchunks, matching, flagged, data, isValid, pcF, chksBySeries, toLoad, tasks,
               lastErr, firstErr, passed, counters, fres>>
vars == <<cfgVars, planVars, concVars, fetchVars, sized>>

\* ----------------------------------------------------------- LazyChunk
NoChunk == [id |-> 0, from |-> 0, through |-> 0]

\* Chunk.From.UnixNano(), Chunk.Through.UnixNano()
UnixNano(t) == t * NsPerMs

\* LazyChunk.IsOverlapping(with, direction)
IsOverlapping(c, with, dir) ==
    IF dir = BACKWARD
    THEN c.from <= with.through
    ELSE c.through >= with.from

\* lazyChunks.Less: the order sort.Sort(res.chunks) establishes
Less(a, b, dir) ==
    IF dir = FORWARD THEN a.from <= b.from ELSE a.through >= b.through

IsSorted(s, dir) == \A i \in 1..(Len(s) - 1) : Less(s[i], s[i + 1], dir)

\* lazyChunks.pop(count): the popped prefix and the remaining queue
pop(q, count) ==
    IF Len(q) <= count
    THEN [popped |-> q, rest |-> <<>>]
    ELSE [popped |-> SubSeq(q, 1, count), rest |-> SubSeq(q, count + 1, Len(q))]

\* lazyChunks.Peek
Peek(q) == q[1]

SelectOverlapping(batch, nextChunk, dir) ==
    SelectSeq(batch, LAMBDA c : IsOverlapping(c, nextChunk, dir))

\* ------------------------------------------------- batchChunkIterator
\* "if through.After(it.end) { through = it.end }"; the mutant drops the clamp
MinMutant(a, b) == a
Min(a, b) == IF a < b THEN a ELSE b

\* "shifting by one nanosecond" unless the bound equals the query endpoint
ShiftUnless(t, endpoint) == IF t # endpoint THEN t + Nanosecond ELSE t

NilBatch == [kind |-> "nil", err |-> "none", chunks |-> <<>>,
             from |-> 0, through |-> 0, nextChunk |-> NoChunk]

ErrBatch(e) == [kind |-> "err", err |-> e, chunks |-> <<>>,
                from |-> 0, through |-> 0, nextChunk |-> NoChunk]

\* "if the start of the batch is equal to the end of the query ... we can
\* discard that batch", "unless end and start are equal"
\* the mutant discards the batch of a single-instant query as well
DiscardMutant(from) == from = end
Discard(from) == from = end /\ end # start

\* "if !includesOverlap": lastOverlapping is added in the first pass of the
\* loop only; the mutant adds it in every pass
CarryNowMutant(s) == TRUE
CarryNow(s) == ~s.includesOverlap

\* one pass through the body of "for it.chunks.Len() > 0" in nextBatch
LoopBody(s, headChunk) ==
    LET withFwd == IF CarryNow(s) /\ direction = FORWARD
                   THEN s.batch \o lastOverlapping ELSE s.batch
        p == pop(s.q, batchSize)
        popped == withFwd \o p.popped
        batch == IF CarryNow(s) /\ direction = BACKWARD
                 THEN popped \o lastOverlapping ELSE popped
        hasNext == Len(p.rest) > 0
        nextChunk == IF hasNext THEN Peek(p.rest) ELSE s.nextChunk
        from1 == IF hasNext /\ direction = BACKWARD
                 THEN ShiftUnless(UnixNano(nextChunk.through), start)
                 ELSE s.from
        through1 == IF hasNext /\ direction # BACKWARD
                    THEN UnixNano(nextChunk.from)
                    ELSE s.through
        through2 == IF direction = BACKWARD
                    THEN ShiftUnless(Min(UnixNano(headChunk.through), end), end)
                    ELSE through1
        headFrom == UnixNano(headChunk.from)
        discard == direction # BACKWARD /\ Discard(headFrom)
        from2 == IF direction = BACKWARD THEN from1
                 ELSE IF headFrom < start THEN start ELSE headFrom
    IN  [q |-> p.rest, batch |-> batch, nextChunk |-> nextChunk,
         from |-> from2, through |-> through2, includesOverlap |-> TRUE,
         ret |-> IF discard THEN "nil"
                 ELSE IF through2 - from2 > 0 THEN "break" ELSE "again"]

\* "for it.chunks.Len() > 0 { ... }" in nextBatch, from the state s0 on
RECURSIVE PopLoop(_, _)
PopLoop(s0, headChunk) ==
    CHOOSE r \in {IF Len(s.q) = 0 \/ s.ret # "again"
                  THEN s
                  ELSE PopLoop(LoopBody(s, headChunk), headChunk) : s \in {s0}} : TRUE

\* nextBatch after its loop: the bounds are reset when the window is empty,
\* the overlap with nextChunk is kept, the chunks are fetched.  outcome is
\* what fetchChunkBySeries does: "ok", "fetch error" (it returns an error)
\* or "panic" (it panics in the planner goroutine; the deferred function
\* recovers)
AfterLoop(s, outcome) ==
    LET reset == s.through - s.from <= 0
        from == IF reset /\ direction = BACKWARD THEN start ELSE s.from
        through == IF reset /\ direction # BACKWARD THEN end ELSE s.through
        carry == IF Len(s.q) > 0
                 THEN SelectOverlapping(s.batch, s.nextChunk, direction)
                 ELSE lastOverlapping
    IN  IF s.ret = "nil"
        THEN [res |-> NilBatch, chunks |-> s.q, lastOverlapping |-> lastOverlapping]
        ELSE [res |-> IF outcome = "ok"
                      THEN [kind |-> "ok", err |-> "none", chunks |-> s.batch,
                            from |-> from, through |-> through,
                            nextChunk |-> s.nextChunk]
                      ELSE ErrBatch(outcome),
              chunks |-> s.q, lastOverlapping |-> carry]

\* batchChunkIterator.nextBatch: the value returned, the queue and the
\* overlap it leaves
nextBatch(outcome) ==
    CHOOSE r \in {AfterLoop(s, outcome) :
                    s \in {PopLoop([q |-> chunks, batch |-> <<>>, nextChunk |-> NoChunk,
                                    from |-> start, through |-> end,
                                    includesOverlap |-> FALSE, ret |-> "again"],
                                   Peek(chunks))}} : TRUE

\* ------------------------------------------------------------ inputs
Spans(maxT) == {sp \in [from : 0..maxT, through : 0..maxT] : sp.from <= sp.through}

\* query bounds on a millisecond and off it
Offsets == {0, Nanosecond}

QueryTimes(maxT, offs) == {UnixNano(k) + d : k \in 0..maxT, d \in offs}

\* a chunk list: ids 1..n in queue order
ChunkLists(maxN, maxT) ==
    UNION {{[i \in 1..n |-> [id |-> i, from |-> f[i].from, through |-> f[i].through]] :
                f \in [1..n -> Spans(maxT)]} : n \in 0..maxN}

\* the chunk's span meets the query bound [start, end]
Intersects(c, s, e) == UnixNano(c.from) <= e /\ UnixNano(c.through) >= s

InitConfig(maxN, maxT, offs) ==
    /\ input \in ChunkLists(maxN, maxT)
    /\ direction \in {FORWARD, BACKWARD}
    /\ IsSorted(input, direction)
    /\ stream \in {"log", "sample"}
    /\ stream = "sample" => direction = FORWARD
    /\ start \in QueryTimes(maxT, offs)
    /\ \A i \in 1..Len(input) : UnixNano(input[i].through) >= start
    /\ end \in QueryTimes(maxT, offs)
    /\ start <= end
    /\ \A i \in 1..Len(input) : Intersects(input[i], start, end)
    /\ batchSize \in 1..(IF Len(input) = 0 THEN 1 ELSE Len(input))

NoCounters == [discardedSeries |-> 0, discardedChunks |-> 0,
               matchedSeries |-> 0, matchedChunks |-> 0]

NoResult == [kind |-> "none", err |-> "none"]

\* zero value of seriesBatch ("var currentBatch seriesBatch")
NoBatch == [tsdb |-> 0, series |-> <<>>, size |-> 0]

NoSized == [kind |-> "none", err |-> "none", batches |-> <<>>, n |-> 0]

\* no call of sizedSeriesIter is being followed
SizedIdle ==
    [tsdbsWithGaps |-> <<>>, targetTaskSizeBytes |-> 0, batches |-> <<>>,
     currentBatch |-> NoBatch, pc |-> "idle", tsdbPos |-> 0, gapPos |-> 0,
     seriesPos |-> 0, ctxDone |-> FALSE, res |-> NoSized]

\* no call of fetchChunkBySeries is being followed
FetchIdle ==
    /\ fchunks = <<>>
    /\ matching = {}
    /\ flagged = {}
    /\ data = {}
    /\ isValid = {}
    /\ pcF = "idle"
    /\ chksBySeries = <<>>
    /\ toLoad = {}
    /\ tasks = <<>>
    /\ lastErr = "none"
    /\ firstErr = "none"
    /\ passed = {}
    /\ counters = NoCounters
    /\ fres = NoResult

InitState ==
    /\ FetchIdle
    /\ sized = SizedIdle
    /\ chunks = input
    /\ lastOverlapping = <<>>
    /\ windows = <<>>
    /\ steps = 0
    /\ begun = FALSE
    /\ cancelled = FALSE
    /\ closed = FALSE
    /\ buf = <<>>
    /\ pcP = "idle"
    /\ res = NilBatch
    /\ pcC = "idle"
    /\ next = NilBatch
    /\ curr = [set |-> FALSE, n |-> 0]
    /\ err = "none"
    /\ lastNext = "none"
    /\ crashed = FALSE
    /\ computed = 0
    /\ received = 0
    /\ callCancelled = FALSE
    /\ lastRecvErr = "none"
    /\ lastOutcome = "none"

\* ------------------------------------------- the planning specification
\* nextBatch called until the queue is empty, every fetch succeeding
InitPlan ==
    /\ InitConfig(MaxChunks, MaxT, Offsets)
    /\ stream = "log"
    /\ InitState

Record(w) == IF w.kind = "ok" THEN Append(windows, w) ELSE windows

PlanStep ==
    /\ Len(chunks) > 0
    /\ \E r \in {nextBatch("ok")} :
           /\ chunks' = r.chunks
           /\ lastOverlapping' = r.lastOverlapping
           /\ windows' = Record(r.res)
           /\ steps' = steps + 1
    /\ UNCHANGED <<sized, fetchVars, cfgVars, concVars>>

NextPlan == PlanStep

SpecPlan == InitPlan /\ [][NextPlan]_vars

\* ------------------------------------------------ planning properties
\* instants around every millisecond and around the query bounds
Instants ==
    {t \in UNION {{UnixNano(k) - 1, UnixNano(k), UnixNano(k) + 1} : k \in 0..MaxT}
           \cup {start - 1, start, start + 1, end - 1, end, end + 1} : t >= 0}

InSpan(c, t) == UnixNano(c.from) <= t /\ t <= UnixNano(c.through)

\* the query range, read like a window's bound
InQuery(t) == start <= t /\ t < end

Holds(w, c) == \E j \in 1..Len(w.chunks) : w.chunks[j].id = c.id

\* the window's bound read as [from, through)
InBound(w, t) == w.from <= t /\ t < w.through

Covering(c, t) == {i \in 1..Len(windows) : Holds(windows[i], c) /\ InBound(windows[i], t)}

ExactlyOnce(dir) ==
    (Len(chunks) = 0 /\ direction = dir) =>
        \A i \in 1..Len(input) : \A t \in Instants :
            (InSpan(input[i], t) /\ InQuery(t)) => Cardinality(Covering(input[i], t)) = 1

\* C1: once the queue is empty, every pair (chunk c, instant t) with t in
\* c's span and in the query range lies in exactly one emitted window that
\* holds c and whose bound [from, through) contains t.
C1_ExactlyOneWindow == ExactlyOnce(FORWARD) /\ ExactlyOnce(BACKWARD)

Ordered(dir) ==
    direction = dir =>
        \A i \in 1..(Len(windows) - 1) :
            IF dir = FORWARD
            THEN windows[i + 1].from >= windows[i].through
            ELSE windows[i + 1].through <= windows[i].from

\* C2: the bounds of two windows emitted one after the other are disjoint
\* and ordered in the query direction (forward: next.from >= prev.through;
\* backward: next.through <= prev.from).
C2_ConsecutiveWindowsDisjoint == Ordered(FORWARD) /\ Ordered(BACKWARD)

SingleInstant ==
    /\ start = end
    /\ \A i \in 1..Len(input) : InSpan(input[i], start)

\* C4: for a query with start = end whose chunks all contain that instant,
\* the planner emits exactly one window, with from = through = start,
\* holding every chunk (and never discards the batch).
C4_SingleInstantWindow ==
    (SingleInstant /\ Len(input) > 0 /\ Len(chunks) = 0) =>
        /\ Len(windows) = 1
        /\ steps = 1
        /\ windows[1].from = start
        /\ windows[1].through = start
        /\ \A i \in 1..Len(input) : Holds(windows[1], input[i])

C4_Witness ==
    /\ SingleInstant
    /\ Len(input) >= 2
    /\ batchSize = 1
    /\ Len(chunks) = 0
    /\ Len(windows) = 1
    /\ \E i \in 1..Len(input) : UnixNano(input[i].from) = start

\* ------------------------------------------------ the planner goroutine
\* it.next is unbuffered: a send completes only with a receiver waiting
\* (the mutant is a buffered channel: a send completes without a receiver)
SendReadyMutant == TRUE
SendReady == pcC = "recv"

\* case <-it.ctx.Done() of the select in loop
\* (the mutant is a select without this case)
CtxDoneReadyMutant == FALSE
CtxDoneReady == cancelled

\* "close(it.next); return" in loop
\* (the mutant returns without closing the channel)
LoopExitMutant == [closed |-> FALSE, pcP |-> "done"]
LoopExit == [closed |-> TRUE, pcP |-> "done"]

\* --------------------------------- logBatchIterator, sampleBatchIterator
\* Err()
Err ==
    IF err # "none" THEN err
    ELSE IF cancelled THEN "context canceled" ELSE "none"

\* sampleBatchIterator.Next loops "for it.ctx.Err() == nil";
\* logBatchIterator.Next loops "for"
LoopGuard == stream = "sample" => ~cancelled

\* "return b" in Next
Return(b) ==
    /\ lastNext' = IF b THEN "true" ELSE "false"
    /\ pcC' = "idle"

\* Next from the top of its loop down to the receive on it.next, c being it.curr
LoopTop(c) ==
    IF ~LoopGuard
    THEN /\ Return(FALSE)
         /\ curr' = c
         /\ UNCHANGED err
    ELSE IF c.set /\ c.n > 0
    THEN /\ Return(TRUE)
         /\ curr' = [c EXCEPT !.n = c.n - 1]
         /\ UNCHANGED err
    ELSE /\ curr' = c
         /\ err' = IF c.set THEN "none" ELSE err
         /\ pcC' = "recv"
         /\ UNCHANGED lastNext

\* Next from the receive to the call of newChunksIterator: w is the value
\* received from it.next
Resume(w) ==
    /\ lastRecvErr' = w.err
    /\ UNCHANGED callCancelled
    /\ \/ /\ w.kind = "nil"
          /\ Return(FALSE)
          /\ UNCHANGED <<next, curr, err>>
       \/ /\ w.kind = "err"
          /\ err' = w.err
          /\ Return(FALSE)
          /\ UNCHANGED <<next, curr>>
       \/ /\ w.kind = "ok"
          /\ pcC' = "build"
          /\ next' = w
          /\ UNCHANGED <<curr, err, lastNext>>

\* newChunksIterator reads the chunks of the window (IsValid of each in
\* buildMergeIterator) and returns an error or an iterator over some entries;
\* Next goes on from there
BuildIterators ==
    /\ ~crashed
    /\ pcC = "build"
    /\ next' = NilBatch
    /\ \/ /\ err' = "iterator error"
          /\ Return(FALSE)
          /\ UNCHANGED curr
       \/ \E n \in 0..MaxItems : LoopTop([set |-> TRUE, n |-> n])
    /\ UNCHANGED <<sized, fetchVars, cfgVars, planVars, begun, cancelled, closed, buf, pcP, res,
                   crashed, computed, received, callCancelled, lastRecvErr, lastOutcome>>

\* Next is called
NextCall ==
    /\ ~crashed
    /\ pcC = "idle"
    /\ callCancelled' = cancelled
    /\ lastRecvErr' = "none"
    /\ LoopTop(curr)
    /\ IF pcC' = "recv"
       THEN /\ begun' = TRUE
            /\ pcP' = IF begun THEN pcP ELSE "loop"
       ELSE UNCHANGED <<begun, pcP>>
    /\ UNCHANGED <<sized, fetchVars, cfgVars, planVars, cancelled, closed, buf, res, next, crashed,
                   computed, received, lastOutcome>>

\* <-it.next returns a buffered value, or nil once the channel is closed
ConsumerRecv ==
    /\ ~crashed
    /\ pcC = "recv"
    /\ Len(buf) > 0 \/ closed
    /\ IF Len(buf) > 0
       THEN /\ Resume(Head(buf))
            /\ buf' = Tail(buf)
            /\ received' = received + 1
       ELSE /\ Resume(NilBatch)
            /\ UNCHANGED <<buf, received>>
    /\ UNCHANGED <<sized, fetchVars, cfgVars, planVars, begun, cancelled, closed, pcP, res, crashed,
                   computed, lastOutcome>>

\* Close()
Close ==
    /\ ~crashed
    /\ pcC = "idle"
    /\ cancelled' = TRUE
    /\ curr' = IF curr.set THEN [curr EXCEPT !.n = 0] ELSE curr
    /\ UNCHANGED <<sized, fetchVars, cfgVars, planVars, begun, closed, buf, pcP, res, pcC, next, err, lastNext,
                   crashed, computed, received, callCancelled, lastRecvErr, lastOutcome>>

\* the parent context is cancelled
ParentCancel ==
    /\ ~crashed
    /\ ~cancelled
    /\ pcC # "new"
    /\ cancelled' = TRUE
    /\ UNCHANGED <<sized, fetchVars, cfgVars, planVars, begun, closed, buf, pcP, res, pcC, next, curr, err,
                   lastNext, crashed, computed, received, callCancelled, lastRecvErr, lastOutcome>>

\* loop: the queue is empty
PlannerClose ==
    /\ ~crashed
    /\ pcP = "loop"
    /\ Len(chunks) = 0
    /\ closed' = LoopExit.closed
    /\ pcP' = LoopExit.pcP
    /\ UNCHANGED <<sized, fetchVars, cfgVars, planVars, begun, cancelled, buf, res, pcC, next, curr, err,
                   lastNext, crashed, computed, received, callCancelled, lastRecvErr, lastOutcome>>

\* loop: the select statement evaluates it.nextBatch() on entry
PlannerNextBatch ==
    /\ ~crashed
    /\ pcP = "loop"
    /\ Len(chunks) > 0
    /\ \E outcome \in {"ok", "fetch error", "panic"} :
          \E r \in {nextBatch(outcome)} :
              /\ chunks' = r.chunks
              /\ lastOverlapping' = r.lastOverlapping
              /\ windows' = Record(r.res)
              /\ res' = r.res
              /\ lastOutcome' = IF r.res.kind = "nil" THEN "none" ELSE outcome
    /\ steps' = steps + 1
    /\ computed' = computed + 1
    /\ pcP' = "select"
    /\ UNCHANGED <<sized, fetchVars, cfgVars, begun, cancelled, closed, buf, pcC, next, curr, err, lastNext,
                   crashed, received, callCancelled, lastRecvErr>>

\* a panic in one of the goroutines fetchLazyChunks starts: the deferred
\* recover of nextBatch runs in the planner goroutine and does not see it
PlannerTaskPanic ==
    /\ ~crashed
    /\ pcP = "loop"
    /\ Len(chunks) > 0
    /\ nextBatch("ok").res.kind # "nil"
    /\ crashed' = TRUE
    /\ lastOutcome' = "task panic"
    /\ UNCHANGED <<sized, fetchVars, cfgVars, planVars, begun, cancelled, closed, buf, pcP, res, pcC, next,
                   curr, err, lastNext, computed, received, callCancelled, lastRecvErr>>

\* select: case it.next <- res
PlannerSend ==
    /\ ~crashed
    /\ pcP = "select"
    /\ SendReady
    /\ pcP' = "loop"
    /\ res' = NilBatch
    /\ IF pcC = "recv" /\ Len(buf) = 0
       THEN /\ Resume(res)
            /\ received' = received + 1
            /\ UNCHANGED buf
       ELSE /\ buf' = Append(buf, res)
            /\ UNCHANGED <<pcC, next, curr, err, lastNext, received, callCancelled,
                           lastRecvErr>>
    /\ UNCHANGED <<sized, fetchVars, cfgVars, planVars, begun, cancelled, closed, crashed, computed,
                   lastOutcome>>

\* select: case <-it.ctx.Done()
PlannerCtxDone ==
    /\ ~crashed
    /\ pcP = "select"
    /\ CtxDoneReady
    /\ closed' = LoopExit.closed
    /\ pcP' = LoopExit.pcP
    /\ UNCHANGED <<sized, fetchVars, cfgVars, planVars, begun, cancelled, buf, res, pcC, next, curr, err,
                   lastNext, crashed, computed, received, callCancelled, lastRecvErr, lastOutcome>>

Init ==
    /\ InitConfig(MaxConcChunks, MaxConcT, {0})
    /\ InitState

Planner == PlannerClose \/ PlannerNextBatch \/ PlannerSend \/ PlannerCtxDone

Next ==
    \/ NextCall
    \/ ConsumerRecv
    \/ BuildIterators
    \/ Close
    \/ ParentCancel
    \/ PlannerClose
    \/ PlannerNextBatch
    \/ PlannerTaskPanic
    \/ PlannerSend
    \/ PlannerCtxDone

Spec == Init /\ [][Next]_vars

\* the scheduler runs the planner goroutine whenever it can take a step;
\* the consumer is free to stop calling Next
\* newLogBatchIterator, newSampleBatchIterator: the fair specifications start
\* before the iterator is built
NotBuilt ==
    /\ direction = FORWARD
    /\ stream = "log"
    /\ start = 0
    /\ end = 0
    /\ batchSize = 1
    /\ input = <<>>
    /\ chunks = <<>>
    /\ lastOverlapping = <<>>
    /\ windows = <<>>
    /\ steps = 0
    /\ begun = FALSE
    /\ cancelled = FALSE
    /\ closed = FALSE
    /\ buf = <<>>
    /\ pcP = "idle"
    /\ res = NilBatch
    /\ pcC = "new"
    /\ next = NilBatch
    /\ curr = [set |-> FALSE, n |-> 0]
    /\ err = "none"
    /\ lastNext = "none"
    /\ crashed = FALSE
    /\ computed = 0
    /\ received = 0
    /\ callCancelled = FALSE
    /\ lastRecvErr = "none"
    /\ lastOutcome = "none"

InitLive ==
    /\ FetchIdle
    /\ sized = SizedIdle
    /\ NotBuilt

Construct ==
    /\ pcC = "new"
    /\ \E in \in ChunkLists(MaxConcChunks, MaxConcT), d \in {FORWARD, BACKWARD},
          st \in {"log", "sample"} :
          /\ IsSorted(in, d)
          /\ st = "sample" => d = FORWARD
          /\ \E s \in QueryTimes(MaxConcT, {0}), e \in QueryTimes(MaxConcT, {0}) :
                /\ s <= e
                /\ \A i \in 1..Len(in) : Intersects(in[i], s, e)
                /\ start' = s
                /\ end' = e
          /\ input' = in
          /\ chunks' = in
          /\ direction' = d
          /\ stream' = st
    /\ batchSize' \in 1..(IF Len(input') = 0 THEN 1 ELSE Len(input'))
    /\ pcC' = "idle"
    /\ UNCHANGED <<sized, fetchVars, lastOverlapping, windows, steps, begun, cancelled, closed, buf, pcP,
                   res, next, curr, err, lastNext, crashed, computed, received,
                   callCancelled, lastRecvErr,
                   lastOutcome>>

NextLive == Construct \/ Next

FairPlanner == InitLive /\ [][NextLive]_vars /\ WF_vars(Planner)

\* as FairPlanner, with a caller that builds the iterator and keeps calling Next
FairAll ==
    /\ InitLive
    /\ [][NextLive]_vars
    /\ WF_vars(Construct)
    /\ WF_vars(Planner)
    /\ WF_vars(NextCall)
    /\ WF_vars(ConsumerRecv)
    /\ WF_vars(BuildIterators)

\* ---------------------------------------------- concurrency properties
\* windows computed by the planner and not received by the consumer
Outstanding == computed - received

\* C5: at most one computed window is waiting for the consumer, and the
\* planner never is about to compute a window while one is waiting.
C5_OneWindowLookahead ==
    /\ Outstanding <= 1
    /\ pcP = "loop" => Outstanding = 0

C5_Witness ==
    /\ pcP = "select"
    /\ pcC = "idle"
    /\ lastNext = "true"
    /\ computed = 2
    /\ Outstanding = 1

\* C6: once the cancellation signal is set, the consumer receives no
\* further window from the planner.
C6_NoWindowAfterCancel ==
    [][~(cancelled /\ received' = received + 1 /\ res.kind # "nil")]_vars

\* C7: a call of Next made after the cancellation signal was set returns
\* false, for the entry stream and for the sample stream.
NextTrueAfterCancel == pcC = "idle" /\ callCancelled /\ lastNext = "true"

C7_NextFalseAfterCancel == ~NextTrueAfterCancel

\* C8: a failing planning step does not crash the process; it yields a
\* window carrying the error, and the call of Next that receives this
\* window returns false with Err() returning that error.
StepErrorCaptured ==
    (pcP = "select" /\ lastOutcome \in {"fetch error", "panic"}) =>
        (res.kind = "err" /\ res.err = lastOutcome)

ErrorWindowEndsStream ==
    lastRecvErr # "none" => (pcC = "idle" /\ lastNext = "false" /\ Err = lastRecvErr)

C8_StepFailureBecomesStreamError ==
    /\ ~crashed
    /\ StepErrorCaptured
    /\ ErrorWindowEndsStream

\* C9: after the cancellation signal is set, the planner goroutine
\* eventually closes its channel and exits, without a further pull by the
\* consumer (every fetch returning).
C9_CancelStopsPlanner == cancelled ~> ((closed /\ pcP = "done") \/ crashed)

\* C9 as amended: the same, for a planner that has been started.
C9_CancelStopsStartedPlanner ==
    (cancelled /\ begun) ~> ((closed /\ pcP = "done") \/ crashed)

C9_Witness ==
    /\ cancelled
    /\ begun
    /\ closed
    /\ pcP = "done"
    /\ pcC = "idle"
    /\ Len(chunks) > 0
    /\ Outstanding = 1

\* C10: without cancellation every planning step shortens the queue, the
\* planner closes its channel once the queue is empty, and a consumer that
\* keeps calling Next eventually gets false.
C10_Terminates ==
    /\ [][steps' # steps => Len(chunks') < Len(chunks)]_vars
    /\ <>(cancelled \/ crashed \/ (closed /\ Len(chunks) = 0 /\ lastNext = "false"))

C10_Witness ==
    /\ ~cancelled
    /\ ~crashed
    /\ closed
    /\ Len(chunks) = 0
    /\ lastNext = "false"
    /\ steps = 2
    /\ received = 2

\* ------------------------------------------------------- partitioning
\* series fingerprints and fetchers of the chunks of one fetch step
Fingerprints == {1, 2}
Fetchers == {"f1", "f2"}

\* chunk lists with a series and a fetcher: ids 1..n in list order
LazyChunkLists(maxN, spans, fps, fetchers) ==
    UNION {{[i \in 1..n |-> [id |-> i, fp |-> f[i].fp, fetcher |-> f[i].fetcher,
                             from |-> f[i].span.from, through |-> f[i].span.through]] :
                f \in [1..n -> [fp : fps, fetcher : fetchers, span : spans]]} : n \in 0..maxN}


\* the orders of the chunks s[i], i in idxs, that ascend in From
RECURSIVE SortedOf(_, _)
SortedOf(s, idxs) ==
    IF idxs = {} THEN {<<>>}
    ELSE UNION {{<<s[i]>> \o rest : rest \in SortedOf(s, idxs \ {i})} :
                   i \in {j \in idxs : \A k \in idxs : s[j].from <= s[k].from}}

\* the mutant leaves the list unsorted
SortedByFromMutant(s) == {s}
\* the outcomes of "sort.Slice(chunks, ... From < From)": sort.Slice is not
\* stable, chunks with equal From come out in any order
SortedByFrom(s) == SortedOf(s, 1..Len(s))

\* model.Time.Before; the mutant lets chunks that touch share a list
BeforeMutant(a, b) == a <= b
Before(a, b) == a < b

\* the body of "for _, c := range chunks" in partitionOverlappingChunks: c goes
\* to the first list whose last chunk's Through is before c's From, else to a
\* new list
PlaceChunk(css, c) ==
    LET fit == {i \in 1..Len(css) : Before(css[i][Len(css[i])].through, c.from)}
    IN  IF fit = {}
        THEN Append(css, <<c>>)
        ELSE LET first == CHOOSE i \in fit : \A j \in fit : i <= j
             IN  [css EXCEPT ![first] = Append(@, c)]

RECURSIVE PlaceAll(_, _)
PlaceAll(sorted, css) ==
    IF Len(sorted) = 0 THEN css
    ELSE PlaceAll(Tail(sorted), PlaceChunk(css, Head(sorted)))

\* partitionOverlappingChunks: the results it may return for one list
partitionOverlappingChunks(chks) == {PlaceAll(srt, <<>>) : srt \in SortedByFrom(chks)}

\* chunksByFp[fp] of partitionBySeriesChunks
\* (the mutant puts every chunk under every fingerprint)
ChunksByFpMutant(chks, fp) == chks
ChunksByFp(chks, fp) == SelectSeq(chks, LAMBDA c : c.fp = fp)

FpsOf(chks) == {chks[i].fp : i \in 1..Len(chks)}

\* partitionBySeriesChunks: the maps it may return
partitionBySeriesChunks(chks) ==
    {m \in [FpsOf(chks) ->
               UNION {partitionOverlappingChunks(ChunksByFp(chks, fp)) : fp \in FpsOf(chks)}] :
        \A fp \in FpsOf(chks) : m[fp] \in partitionOverlappingChunks(ChunksByFp(chks, fp))}

\* --------------------------------------- the partitioning specification
\* partitionBySeriesChunks applied to the chunk lists of one series, and to
\* the lists of several series over a shorter time range
InitPartition ==
    /\ NotBuilt
    /\ sized = SizedIdle
    /\ fchunks \in LazyChunkLists(MaxChunks, Spans(MaxT), {1}, {"f1"})
                      \cup LazyChunkLists(MaxChunks, Spans(MaxConcT), Fingerprints, {"f1"})
    /\ matching = {}
    /\ flagged = {}
    /\ data = {}
    /\ isValid = {}
    /\ pcF = "idle"
    /\ chksBySeries = <<>>
    /\ toLoad = {}
    /\ tasks = <<>>
    /\ lastErr = "none"
    /\ firstErr = "none"
    /\ passed = {}
    /\ counters = NoCounters
    /\ fres = NoResult

PartitionStep ==
    /\ pcF = "idle"
    /\ chksBySeries' \in partitionBySeriesChunks(fchunks)
    /\ pcF' = "partitioned"
    /\ UNCHANGED <<sized, cfgVars, planVars, concVars, fchunks, matching, flagged, data, isValid,
                   toLoad, tasks, lastErr, firstErr, passed, counters, fres>>

NextPartition == PartitionStep

SpecPartition == InitPartition /\ [][NextPartition]_vars

\* ---------------------------------------------- partitioning properties
\* the sequences of all series of a partition
Sequences(m) == UNION {{m[fp][i] : i \in 1..Len(m[fp])} : fp \in DOMAIN m}

\* C15: in every sequence partitionOverlappingChunks returns, consecutive
\* chunks are ordered by start time and the previous chunk's Through is
\* strictly before the next chunk's From.
C15_SequencesDisjoint ==
    \A cs \in Sequences(chksBySeries) : \A i \in 1..(Len(cs) - 1) :
        cs[i].from <= cs[i + 1].from /\ cs[i].through < cs[i + 1].from

\* two chunks of one series touch (Through = From) and a sequence holds two chunks
C15_Witness ==
    /\ pcF = "partitioned"
    /\ \E cs \in Sequences(chksBySeries) : Len(cs) >= 2
    /\ \E i, j \in 1..Len(fchunks) :
          /\ i # j
          /\ fchunks[i].fp = fchunks[j].fp
          /\ fchunks[i].through = fchunks[j].from
          /\ fchunks[i].from < fchunks[j].from

\* the places (fingerprint, sequence, position) of the result that hold chunk c
Places(m, c) ==
    {pl \in UNION {{<<fp, i, j>> : i \in 1..Len(m[fp]), j \in 1..Len(fchunks)} : fp \in DOMAIN m} :
        /\ pl[3] <= Len(m[pl[1]][pl[2]])
        /\ m[pl[1]][pl[2]][pl[3]] = c}

RECURSIVE SumLen(_)
SumLen(ss) == IF Len(ss) = 0 THEN 0 ELSE Len(Head(ss)) + SumLen(Tail(ss))

\* C16: the result of partitionBySeriesChunks holds exactly the input chunks,
\* each exactly once and under its own fingerprint, and no sequence is empty.
C16_PartitionKeepsEveryChunk ==
    pcF = "partitioned" =>
        /\ DOMAIN chksBySeries = FpsOf(fchunks)
        /\ \A i \in 1..Len(fchunks) :
              /\ Cardinality(Places(chksBySeries, fchunks[i])) = 1
              /\ \A pl \in Places(chksBySeries, fchunks[i]) : pl[1] = fchunks[i].fp
        /\ \A fp \in DOMAIN chksBySeries : SumLen(chksBySeries[fp]) = Len(ChunksByFp(fchunks, fp))
        /\ \A cs \in Sequences(chksBySeries) : Len(cs) > 0

\* two series, one of them split into two sequences
C16_Witness ==
    /\ pcF = "partitioned"
    /\ Len(fchunks) = MaxChunks
    /\ Cardinality(DOMAIN chksBySeries) = 2
    /\ \E fp \in DOMAIN chksBySeries : Len(chksBySeries[fp]) = 2

\* the overlap depth of a chunk list: the largest number of chunks whose
\* closed spans [From, Through] share an instant
Depth(chks) ==
    LET at(t) == Cardinality({i \in 1..Len(chks) : chks[i].from <= t /\ t <= chks[i].through})
        ts == {chks[i].from : i \in 1..Len(chks)}
    IN  IF ts = {} THEN 0 ELSE CHOOSE d \in {at(t) : t \in ts} : \A t \in ts : at(t) <= d

\* C17: the number of sequences partitionOverlappingChunks returns for the
\* chunks of one series is the overlap depth of these chunks.
C17_SequenceCountIsDepth ==
    pcF = "partitioned" =>
        \A fp \in DOMAIN chksBySeries :
            Len(chksBySeries[fp]) = Depth(ChunksByFp(fchunks, fp))

\* one series given out of start order, its chunks one disjoint sequence
C17_Witness ==
    /\ pcF = "partitioned"
    /\ Len(fchunks) = MaxChunks
    /\ \A i \in 1..(Len(fchunks) - 1) :
          fchunks[i].fp = fchunks[i + 1].fp /\ fchunks[i].from > fchunks[i + 1].through
    /\ \A fp \in DOMAIN chksBySeries : Len(chksBySeries[fp]) = 1

\* --------------------------------------------------- window membership
\* the chunk's span [From, Through] meets the window's bound, the bound read
\* as the closed range [from, through]
MeetsBound(c, w) == UnixNano(c.from) <= w.through /\ UnixNano(c.through) >= w.from

\* the same with the bound read as [from, through), a window with
\* from = through standing for that one instant
MeetsHalfOpenBound(c, w) ==
    /\ UnixNano(c.through) >= w.from
    /\ \/ UnixNano(c.from) < w.through
       \/ w.from = w.through /\ UnixNano(c.from) = w.from

\* C18: a chunk of the query is in an emitted window's chunk set if and only
\* if its span meets the window's bound.
C18_WindowHoldsWhatMeetsBound ==
    \A i \in 1..Len(windows) : \A j \in 1..Len(input) :
        Holds(windows[i], input[j]) <=> MeetsBound(input[j], windows[i])

\* the same equivalence with the bound read as [from, through)
WindowHoldsWhatMeetsHalfOpenBound ==
    \A i \in 1..Len(windows) : \A j \in 1..Len(input) :
        Holds(windows[i], input[j]) <=> MeetsHalfOpenBound(input[j], windows[i])

\* ------------------------------------------------ after an error window
\* the planner is back at the top of loop after handing over a window
\* that carried an error
ErrorWindowEmitted == pcP = "loop" /\ lastOutcome \in {"fetch error", "panic"}

\* C19: after the planner has emitted a window carrying an error, it
\* computes no further planning step and delivers no further window.
C19_ErrorWindowStopsProduction ==
    [][ErrorWindowEmitted => (steps' = steps /\ received' = received)]_vars

\* ------------------------------------------------ the fetch coordinator
MaxFetchChunks == 2   \* chunks handed to one call of fetchChunkBySeries

\* the spans of the chunks of one fetch step: two chunks of a series overlap
\* (equal spans) or follow one another in one sequence
FetchSpans == {sp \in Spans(1) : sp.from = sp.through}

\* chunks[0][0].Chunk.Metric: the label set of the chunk's series, which the
\* chunk reference carries from its creation
Metric(c) == c.fp

\* "matcher.Matches(...Metric.Get(matcher.Name))" for every matcher
MatchesAll(c) == Metric(c) \in matching

\* chunkFilterer.ShouldFilter(...Metric)
ShouldFilter(c) == Metric(c) \in flagged

\* what happens in one task: FetchChunks loads every chunk ("ok"), fails with
\* the checksum error, or fails with another error; or the context is done
\* when FetchChunks returns ("cancelled")
Outcomes == {"ok", "checksum", "fatal", "cancelled"}

\* isInvalidChunkError (the mutant recognises no error)
isInvalidChunkErrorMutant(o) == FALSE
isInvalidChunkError(o) == o = "checksum"

\* the error the task of fetcher f sends on errChan: the error of a failed
\* FetchChunks is named after its fetcher, "none" is nil
Reported(f, o) ==
    IF o = "cancelled" \/ o = "ok" \/ isInvalidChunkError(o) THEN "none" ELSE f

\* the chunks of a partition and the first chunks of its sequences
AllChunks(m) == UNION {{cs[j] : j \in 1..Len(cs)} : cs \in Sequences(m)}
FirstChunks(m) == {cs[1] : cs \in Sequences(m)}

\* "if c.Chunk.Data == nil": the chunks fetchLazyChunks has to load
\* (the mutant has no such test)
UnloadedMutant(cs, d) == cs
Unloaded(cs, d) == {c \in cs : c.id \notin d}

\* chksByFetcher of the call named call ("first": from loadFirstChunks,
\* "all": from fetchChunkBySeries), one goroutine per fetcher
NewTasks(call, cs, d) ==
    [k \in {<<call, c.fetcher>> : c \in Unloaded(cs, d)} |->
        [ids |-> {c.id : c \in {x \in Unloaded(cs, d) : x.fetcher = k[2]}},
         outcome |-> "running"]]

\* "for i := 0; i < len(chksByFetcher); i++ { <-errChan }": the fan-in is
\* over when every goroutine t of the call has sent
\* (the mutant leaves the loop at the first error)
JoinedMutant(t) ==
    \/ \A k \in DOMAIN t : t[k].outcome # "running"
    \/ \E k \in DOMAIN t : t[k].outcome = "fatal"
Joined(t) == \A k \in DOMAIN t : t[k].outcome # "running"

\* "if c.Chunk.Data != nil { c.IsValid = true }" over the chunks of the call
\* (the mutant sets the flag of every chunk of the call)
MarkValidMutant(cs, d, v) == v \cup {c.id : c \in cs}
MarkValid(cs, d, v) == v \cup {c.id : c \in {x \in cs : x.id \in d}}

\* filterSeriesByMatchers: the series it keeps
\* (one mutant has no chunkFilterer, the other no matchers)
filterWithoutFilterer(m) ==
    [fp \in {x \in DOMAIN m : MatchesAll(m[x][1][1])} |-> m[fp]]
filterWithoutMatchers(m) ==
    [fp \in {x \in DOMAIN m : ~ShouldFilter(m[x][1][1])} |-> m[fp]]
filterSeriesByMatchers(m) ==
    [fp \in {x \in DOMAIN m : MatchesAll(m[x][1][1]) /\ ~ShouldFilter(m[x][1][1])} |-> m[fp]]

CountChunks(m, fps) == Cardinality({c \in AllChunks(m) : c.fp \in fps})

\* fetchChunkBySeries after "allChunks" is loaded
Matched(kept, cnt) ==
    [cnt EXCEPT !.matchedSeries = @ + Cardinality(DOMAIN kept),
                !.matchedChunks = @ + Cardinality(AllChunks(kept))]

\* fetchChunkBySeries from the return of loadFirstChunks on: m is the
\* partition, d the loaded chunks, v the valid chunks, t the goroutines so far
AfterFirst(m, d, v, t) ==
    LET kept == filterSeriesByMatchers(m)
        removed == DOMAIN m \ DOMAIN kept
        cnt == [counters EXCEPT !.discardedSeries = @ + Cardinality(removed),
                                !.discardedChunks = @ + CountChunks(m, removed)]
        all == AllChunks(kept)
    IN  IF Unloaded(all, d) = {}
        THEN [pcF |-> "done", chksBySeries |-> kept, tasks |-> t, isValid |-> v,
              counters |-> Matched(kept, cnt), fres |-> [kind |-> "ok", err |-> "none"]]
        ELSE [pcF |-> "all", chksBySeries |-> kept, tasks |-> t @@ NewTasks("all", all, d),
              isValid |-> v, counters |-> cnt, fres |-> NoResult]

Apply(r) ==
    /\ pcF' = r.pcF
    /\ chksBySeries' = r.chksBySeries
    /\ tasks' = r.tasks
    /\ isValid' = r.isValid
    /\ counters' = r.counters
    /\ fres' = r.fres

\* fetchChunkBySeries is called: down to the fan-in of the first
\* fetchLazyChunks that has something to load
FetchStart ==
    /\ pcF = "idle"
    /\ \E m \in partitionBySeriesChunks(fchunks) :
          /\ toLoad' = {c.id : c \in FirstChunks(m)}
          /\ IF Unloaded(FirstChunks(m), data) = {}
             THEN Apply(AfterFirst(m, data, isValid, <<>>))
             ELSE Apply([pcF |-> "first", chksBySeries |-> m,
                         tasks |-> NewTasks("first", FirstChunks(m), data),
                         isValid |-> isValid, counters |-> counters, fres |-> NoResult])
    /\ lastErr' = "none"
    /\ firstErr' = "none"
    /\ UNCHANGED <<sized, cfgVars, planVars, concVars, fchunks, matching, flagged, data, passed>>

\* the goroutine of fetcher f calls FetchChunks, stores the chunks it got and
\* sends its error to the fan-in; after the last send fetchLazyChunks returns
\* and fetchChunkBySeries goes on
TaskReport(f) ==
    /\ pcF \in {"first", "all"}
    /\ <<pcF, f>> \in DOMAIN tasks
    /\ tasks[<<pcF, f>>].outcome = "running"
    /\ \E o \in Outcomes :
          LET ids == tasks[<<pcF, f>>].ids
              e == Reported(f, o)
              d == IF o = "ok" THEN data \cup ids ELSE data
              le == IF e # "none" THEN e ELSE lastErr
              t == [tasks EXCEPT ![<<pcF, f>>].outcome = o]
              joined == Joined(t)
              cs == IF pcF = "first" THEN FirstChunks(chksBySeries)
                    ELSE AllChunks(chksBySeries)
              v == MarkValid(cs, d, isValid)
          IN  /\ passed' = passed \cup ids
              /\ data' = d
              /\ firstErr' = IF firstErr = "none" THEN e ELSE firstErr
              /\ IF ~joined
                 THEN /\ lastErr' = le
                      /\ tasks' = t
                      /\ UNCHANGED <<pcF, chksBySeries, isValid, counters, fres>>
                 ELSE IF le # "none"
                 THEN /\ lastErr' = le
                      /\ Apply([pcF |-> "done", chksBySeries |-> chksBySeries, tasks |-> t,
                                isValid |-> isValid, counters |-> counters,
                                fres |-> [kind |-> "err", err |-> le]])
                 ELSE IF pcF = "first"
                 THEN /\ Apply(AfterFirst(chksBySeries, d, v, t))
                      /\ lastErr' = "none"
                      /\ firstErr' = "none"
                 ELSE /\ lastErr' = le
                      /\ Apply([pcF |-> "done", chksBySeries |-> chksBySeries, tasks |-> t,
                                isValid |-> v, counters |-> Matched(chksBySeries, counters),
                                fres |-> [kind |-> "ok", err |-> "none"]])
    /\ UNCHANGED <<sized, cfgVars, planVars, concVars, fchunks, matching, flagged, toLoad>>

\* one call of fetchChunkBySeries on a batch of nextBatch: chunks in From
\* order, some of the earlier ones loaded by an earlier step
InitFetch ==
    /\ NotBuilt
    /\ sized = SizedIdle
    /\ fchunks \in LazyChunkLists(MaxFetchChunks, FetchSpans, Fingerprints, Fetchers)
    /\ Len(fchunks) >= 1
    /\ \A i \in 1..(Len(fchunks) - 1) : fchunks[i].from <= fchunks[i + 1].from
    /\ matching \in SUBSET FpsOf(fchunks)
    /\ flagged \in SUBSET FpsOf(fchunks)
    /\ data \in SUBSET (1..(Len(fchunks) - 1))
    /\ isValid = data
    /\ pcF = "idle"
    /\ chksBySeries = <<>>
    /\ toLoad = {}
    /\ tasks = <<>>
    /\ lastErr = "none"
    /\ firstErr = "none"
    /\ passed = {}
    /\ counters = NoCounters
    /\ fres = NoResult

NextFetch == FetchStart \/ \E f \in Fetchers : TaskReport(f)

SpecFetch == InitFetch /\ [][NextFetch]_vars

\* ------------------------------------------------------ fetch properties
\* the series of the step that fail a matcher, and those that are dropped
Failing == FpsOf(fchunks) \ matching
Dropped == Failing \cup (FpsOf(fchunks) \cap flagged)

ChunksOf(fps) == {i \in 1..Len(fchunks) : fchunks[i].fp \in fps}

\* filterSeriesByMatchers has run
Filtered == fres.kind = "ok" \/ \E k \in DOMAIN tasks : k[1] = "all"

C13_FirstErrorWins ==
    (pcF = "done" /\ fres.kind = "err") => fres.err = firstErr

\* the goroutines of one call of fetchLazyChunks
TasksOf(call) == {k \in DOMAIN tasks : k[1] = call}

\* the call has returned without a fatal error
ReturnedNil(call) ==
    /\ TasksOf(call) # {}
    /\ \A k \in TasksOf(call) : tasks[k].outcome \in {"ok", "checksum"}

\* the chunk was handed to a goroutine of a later call that has finished
FetchedAgain(id, call) ==
    /\ call = "first"
    /\ \E k \in TasksOf("all") : id \in tasks[k].ids /\ tasks[k].outcome # "running"

\* C14: a call of fetchLazyChunks whose goroutines fail with the checksum
\* error only returns no error; the chunks of such a goroutine stay without
\* payload and not valid, the chunks of the other goroutines are loaded and
\* valid, and the step returns its window without error.
C14_ChecksumErrorIsNotFatal ==
    \A call \in {"first", "all"} : ReturnedNil(call) =>
        /\ call = "first" => (pcF = "all" \/ fres.kind = "ok" \/ ~ReturnedNil("all"))
        /\ call = "all" => (pcF = "done" /\ fres.kind = "ok")
        /\ \A k \in TasksOf(call) :
              IF tasks[k].outcome = "checksum"
              THEN \A id \in tasks[k].ids :
                      FetchedAgain(id, call) \/ (id \notin data /\ id \notin isValid)
              ELSE tasks[k].ids \subseteq (data \cap isValid)

\* two goroutines in the last call, one failed with the checksum error, the
\* other loaded its chunks
C14_Witness ==
    /\ pcF = "done"
    /\ fres.kind = "ok"
    /\ \E k1, k2 \in TasksOf("all") :
          /\ tasks[k1].outcome = "checksum"
          /\ tasks[k2].outcome = "ok"
          /\ tasks[k1].ids \cap data = {}
          /\ tasks[k2].ids \subseteq isValid

\* ---------------------------------------------- planner and consumer
\* The chunks of the concurrent specifications are the chunks of one series,
\* served by one fetcher, whose labels satisfy the matchers.

\* the chunks that hold a payload: those of the windows fetched so far
Loaded == UNION {{windows[i].chunks[j].id : j \in 1..Len(windows[i].chunks)} :
                    i \in 1..Len(windows)}

\* the chunks whose IsValid a successful fetchChunkBySeries writes (lines
\* 786-790), css being the sequences of the batch: each call of
\* fetchLazyChunks that has a chunk to load ends by writing the flag of every
\* chunk it was given
FlagsWritten(css, d) ==
    LET m == [fp \in {1} |-> css]
        first == FirstChunks(m)
        all == AllChunks(m)
        d1 == d \cup {c.id : c \in first}
    IN  (IF Unloaded(first, d) # {} THEN {c.id : c \in first} ELSE {})
            \cup (IF Unloaded(all, d1) # {} THEN {c.id : c \in all} ELSE {})

\* the chunks whose IsValid newChunksIterator is reading
BeingRead == IF pcC = "build" THEN {next.chunks[j].id : j \in 1..Len(next.chunks)} ELSE {}

\* C20: the planner and its fetch goroutines write no chunk the consumer is
\* reading: a planning step that runs while the consumer builds the iterators
\* of the window it received writes the validity flag of none of that
\* window's chunks.
C20_NoWriteWhileConsumerReads ==
    [][(steps' = steps + 1 /\ lastOutcome' = "ok") =>
          \A css \in partitionOverlappingChunks(res'.chunks) :
              FlagsWritten(css, Loaded) \cap BeingRead = {}]_vars

\* a fetch step whose series are dropped by the matchers alone
InitFetchLive == InitFetch /\ flagged = {}

\* the scheduler runs every goroutine of fetchLazyChunks and every call of
\* FetchChunks returns
FairFetch == InitFetchLive /\ [][NextFetch]_vars /\ \A f \in Fetchers : WF_vars(TaskReport(f))

\* --------------------------------------------- fetch task properties
\* the goroutines that call FetchChunks in this step of the model
Fetching == {k \in DOMAIN tasks : tasks[k].outcome = "running" /\ tasks'[k].outcome # "running"}

\* C21: FetchChunks is only called with chunks that have no payload, so a
\* payload is written only to a chunk that has none.
C21_LoadedChunkNeverFetchedAgain ==
    [][\A k \in Fetching : tasks[k].ids \cap data = {}]_vars

\* the representative load fetched a chunk, the full load of the same step
\* fetched another chunk of that series and left the first one alone; a chunk
\* loaded by an earlier step (the overlap carry) was given to loadFirstChunks
\* and was not fetched
C21_Witness ==
    /\ pcF = "done"
    /\ fres.kind = "ok"
    /\ \/ \E k1 \in TasksOf("first"), k2 \in TasksOf("all") :
             /\ tasks[k1].outcome = "ok"
             /\ tasks[k2].outcome = "ok"
             /\ \A k \in TasksOf("all") : tasks[k1].ids \cap tasks[k].ids = {}
             /\ \E i \in 1..Len(fchunks) : \E j \in 1..Len(fchunks) :
                   /\ fchunks[i].id \in tasks[k1].ids
                   /\ fchunks[j].id \in tasks[k2].ids
                   /\ fchunks[i].fp = fchunks[j].fp
       \/ \E id \in (toLoad \cap data) \ passed : passed # {}

\* the chunks given to the running call of fetchLazyChunks
CallChunks ==
    IF pcF = "first" THEN FirstChunks(chksBySeries)
    ELSE IF pcF = "all" THEN AllChunks(chksBySeries) ELSE {}

\* chksByFetcher of the running call: one goroutine per fetcher of a chunk
\* without payload, holding the chunks of that fetcher
OneTaskPerFetcher ==
    /\ \A c \in CallChunks : c.id \notin data =>
          (<<pcF, c.fetcher>> \in DOMAIN tasks /\ c.id \in tasks[<<pcF, c.fetcher>>].ids)
    /\ \A k \in DOMAIN tasks :
          /\ tasks[k].ids # {}
          /\ \A id \in tasks[k].ids : fchunks[id].fetcher = k[2]

\* fetchLazyChunks does not return before each of its goroutines has sent
JoinedOnReturn == \A k \in DOMAIN tasks : tasks[k].outcome = "running" => pcF = k[1]

\* C22: one goroutine per fetcher of the chunks without payload, each sends
\* once, fetchLazyChunks returns only after all have sent, and every call of
\* fetchChunkBySeries returns.
C22_EveryTaskReportsAndJoins ==
    /\ [](OneTaskPerFetcher /\ JoinedOnReturn)
    /\ [][\A k \in DOMAIN tasks : tasks[k].outcome # "running" => tasks'[k] = tasks[k]]_vars
    /\ (pcF \in {"first", "all"}) ~> (pcF = "done")

\* two goroutines in each call, a cancelled one among them, all have sent
C22_Witness ==
    /\ pcF = "done"
    /\ Cardinality(TasksOf("first")) = 2
    /\ Cardinality(TasksOf("all")) = 2
    /\ \E k \in DOMAIN tasks : tasks[k].outcome = "cancelled"
    /\ \E k \in DOMAIN tasks : tasks[k].outcome = "fatal"

\* C23: a chunk is valid only if it has a payload, and a call of
\* fetchLazyChunks that returns an error sets no validity flag.
C23_ValidOnlyWithPayload ==
    /\ [](isValid \subseteq data)
    /\ [][(fres'.kind = "err" /\ fres.kind # "err") => isValid' = isValid]_vars

\* a call failed with a fatal error of one goroutine; the chunk another
\* goroutine of that call loaded has a payload and is not valid
C23_Witness ==
    /\ pcF = "done"
    /\ fres.kind = "err"
    /\ \E k \in DOMAIN tasks :
          /\ tasks[k].outcome = "ok"
          /\ tasks[k].ids \subseteq data
          /\ tasks[k].ids \cap isValid = {}


\* ------------------------------------------- the window's nextChunk
\* C24: the nextChunk of an emitted window is the first chunk left in the
\* queue after the step, is absent when the queue is empty, and is no chunk
\* of the window itself.
C24_NextChunkIsQueueHead ==
    [][Len(windows') = Len(windows) + 1 =>
          LET w == windows'[Len(windows')]
          IN  /\ w.nextChunk = IF Len(chunks') > 0 THEN Peek(chunks') ELSE NoChunk
              /\ ~Holds(w, w.nextChunk)]_vars


\* ------------------------------------------- the place of the carry
\* the chunks this step takes from the queue, the ones of its first pop and
\* the ones of its later pops
Popped == SubSeq(chunks, 1, Len(chunks) - Len(chunks'))
FirstPop == pop(chunks, batchSize).popped
LaterPops == SubSeq(chunks, Len(FirstPop) + 1, Len(chunks) - Len(chunks'))

\* the step emits a window
Emits == Len(windows') = Len(windows) + 1
Emitted == windows'[Len(windows')]

\* C25 as stated: the carry is placed before the popped chunks for the
\* backward direction and after them for the forward direction, once.
C25_CarryBeforeBackwardAfterForward ==
    [][Emits =>
          Emitted.chunks = IF direction = BACKWARD
                           THEN lastOverlapping \o Popped
                           ELSE Popped \o lastOverlapping]_vars

\* C25: the carry is placed before the popped chunks for the forward
\* direction and right after the chunks of the first pop for the backward
\* direction, and it is added once per step however often the step pops.
C25_CarryBeforeForwardAfterFirstPopBackward ==
    [][Emits =>
          Emitted.chunks = IF direction = FORWARD
                           THEN lastOverlapping \o Popped
                           ELSE FirstPop \o lastOverlapping \o LaterPops]_vars

\* the second window starts two pops after a window that left a carry: it
\* holds a chunk of the first window and more new chunks than one pop yields
C25_Witness ==
    /\ Len(windows) >= 2
    /\ LET shared == {j \in 1..Len(windows[2].chunks) : Holds(windows[1], windows[2].chunks[j])}
       IN  /\ shared # {}
           /\ Len(windows[2].chunks) - Cardinality(shared) > batchSize


\* ------------------------------------------- the stream's terminal states
\* C26: once Next has returned false, no later call of Next returns true
\* as long as the context is not cancelled.
C26_FalseIsAbsorbing ==
    [][(lastNext = "false" /\ ~cancelled') => lastNext' # "true"]_vars

\* ------------------------------------------------ the size-based planner
\* ChunkSizeStrategy.sizedSeriesIter of
\* pkg/bloombuild/planner/strategies/chunksize.go
MaxSeries == 3   \* series visited by one call of sizedSeriesIter
MaxTarget == 1   \* the target task size ranges over 0..MaxTarget KiB

\* "chk.KB * 1024"
BytesPerKB == 1024

\* the TSDBs of tsdbsWithGaps and the gaps of one TSDB
TSDBIds == {1, 2}
GapIds == {1, 2}

\* newSeriesBatch
newSeriesBatch(t) == [tsdb |-> t, series |-> <<>>, size |-> 0]

\* seriesBatch.Append
BatchAppend(b, s, size) == [b EXCEPT !.series = Append(@, s), !.size = @ + size]

\* "for _, chk := range chks { seriesSize += uint64(chk.KB * 1024) }"
RECURSIVE SeriesSize(_)
SeriesSize(chks) ==
    IF chks = <<>> THEN 0 ELSE Head(chks) * BytesPerKB + SeriesSize(Tail(chks))

\* "Cut a new batch IF the current batch is not empty AND adding this series
\* to the batch would exceed the target task size"
\* the mutant cuts an empty batch as well
CutMutant(b, seriesSize) == b.size + seriesSize > sized.targetTaskSizeBytes
Cut(b, seriesSize) == Len(b.series) > 0 /\ b.size + seriesSize > sized.targetTaskSizeBytes

\* "if currentBatch.Len() > 0 { batches = append(batches, currentBatch) }"
Flush(bs, b) == IF Len(b.series) > 0 THEN Append(bs, b) ELSE bs

\* ------------------------------------------------------------ inputs
\* the KB of the chunks of one series: no chunk, one chunk, or two chunks
\* that add up to maxKB
SeriesChunks(maxKB) ==
    {<<>>} \cup {<<k>> : k \in 1..(maxKB - 1)} \cup {<<1, maxKB - 1>>}

\* shape[t] is the number of gaps of the t-th TSDB
Shapes == UNION {[1..n -> 0..Cardinality(GapIds)] : n \in 0..Cardinality(TSDBIds)}

\* the gaps of a shape, as pairs <<TSDB, gap>>
Slots(shape) == {sl \in (DOMAIN shape) \X GapIds : sl[2] <= shape[sl[1]]}

SlotLeq(a, b) == a[1] < b[1] \/ (a[1] = b[1] /\ a[2] <= b[2])

\* the series ForSeries visits, in visiting order, each with its gap
Visits(shape, maxKB) ==
    UNION {{v \in [1..n -> Slots(shape) \X SeriesChunks(maxKB)] :
               \A i \in 1..(n - 1) : SlotLeq(v[i][1], v[i + 1][1])} : n \in 0..MaxSeries}

\* tsdbsWithGaps: the series of every gap of every TSDB; a series is named by
\* its place in the visiting order
TsdbsWithGaps(shape, v) ==
    LET all == [i \in 1..Len(v) |-> [id |-> i, tsdb |-> v[i][1][1], gap |-> v[i][1][2],
                                      chks |-> v[i][2]]]
    IN  [t \in DOMAIN shape |->
            [tsdbIdentifier |-> t,
             gaps |-> [g \in 1..shape[t] |->
                          SelectSeq(all, LAMBDA x : x.tsdb = t /\ x.gap = g)]]]

\* sizedSeriesIter is entered
InitSized ==
    /\ FetchIdle
    /\ NotBuilt
    /\ \E k \in 0..MaxTarget : \E shape \in Shapes : \E v \in Visits(shape, k + 1) :
          sized = [SizedIdle EXCEPT !.tsdbsWithGaps = TsdbsWithGaps(shape, v),
                                    !.targetTaskSizeBytes = k * BytesPerKB,
                                    !.pc = "tsdb",
                                    !.tsdbPos = 1]

\* ----------------------------------------------------------- actions
\* idx of "for _, idx := range tsdbsWithGaps"
Idx == sized.tsdbsWithGaps[sized.tsdbPos]

\* "for _, idx := range tsdbsWithGaps": the next TSDB, or the end of the loop
TsdbStep ==
    /\ sized.pc = "tsdb"
    /\ sized' = IF sized.tsdbPos > Len(sized.tsdbsWithGaps)
                THEN [sized EXCEPT !.pc = "select"]
                ELSE [sized EXCEPT !.batches = Flush(@, sized.currentBatch),
                                   !.currentBatch = newSeriesBatch(Idx.tsdbIdentifier),
                                   !.gapPos = 1,
                                   !.pc = "gap"]
    /\ UNCHANGED <<cfgVars, planVars, concVars, fetchVars>>

\* "for _, gap := range idx.gaps": the call of ForSeries for the next gap, or
\* the end of the loop
GapStep ==
    /\ sized.pc = "gap"
    /\ sized' = IF sized.gapPos > Len(Idx.gaps)
                THEN [sized EXCEPT !.tsdbPos = @ + 1, !.pc = "tsdb"]
                ELSE [sized EXCEPT !.seriesPos = 1, !.pc = "series"]
    /\ UNCHANGED <<cfgVars, planVars, concVars, fetchVars>>

\* ForSeries calls the callback for the next series of the gap; when the
\* callback stops it (ctx is cancelled) or no series is left, ForSeries
\* returns and the last batch of the gap is added
SeriesStep ==
    /\ sized.pc = "series"
    /\ LET ss == Idx.gaps[sized.gapPos]
           currentBatch == sized.currentBatch
       IN  IF sized.ctxDone \/ sized.seriesPos > Len(ss)
           THEN sized' = [sized EXCEPT
                             !.batches = Flush(@, currentBatch),
                             !.currentBatch = IF Len(currentBatch.series) > 0
                                              THEN newSeriesBatch(Idx.tsdbIdentifier)
                                              ELSE currentBatch,
                             !.gapPos = @ + 1,
                             !.pc = "gap"]
           ELSE LET seriesSize == SeriesSize(ss[sized.seriesPos].chks)
                    cut == Cut(currentBatch, seriesSize)
                    b == IF cut THEN newSeriesBatch(Idx.tsdbIdentifier) ELSE currentBatch
                IN  sized' = [sized EXCEPT
                                 !.batches = IF cut THEN Append(@, currentBatch) ELSE @,
                                 !.currentBatch = BatchAppend(b, ss[sized.seriesPos], seriesSize),
                                 !.seriesPos = @ + 1]
    /\ UNCHANGED <<cfgVars, planVars, concVars, fetchVars>>

\* ForSeries returns an error: "return nil, 0, err"
ForSeriesFails ==
    /\ sized.pc = "series"
    /\ sized' = [sized EXCEPT !.res = [kind |-> "err", err |-> "ForSeries",
                                       batches |-> <<>>, n |-> 0],
                              !.pc = "done"]
    /\ UNCHANGED <<cfgVars, planVars, concVars, fetchVars>>

\* the final select of sizedSeriesIter
SizedReturn ==
    /\ sized.pc = "select"
    /\ sized' = [sized EXCEPT
                    !.res = IF sized.ctxDone
                            THEN [kind |-> "err", err |-> "context canceled",
                                  batches |-> <<>>, n |-> 0]
                            ELSE [kind |-> "ok", err |-> "none",
                                  batches |-> sized.batches, n |-> Len(sized.batches)],
                    !.pc = "done"]
    /\ UNCHANGED <<cfgVars, planVars, concVars, fetchVars>>

\* the caller's context is cancelled while sizedSeriesIter runs
CtxCancel ==
    /\ sized.pc \notin {"idle", "done"}
    /\ ~sized.ctxDone
    /\ sized' = [sized EXCEPT !.ctxDone = TRUE]
    /\ UNCHANGED <<cfgVars, planVars, concVars, fetchVars>>

NextSized == TsdbStep \/ GapStep \/ SeriesStep \/ ForSeriesFails \/ SizedReturn \/ CtxCancel

SpecSized == InitSized /\ [][NextSized]_vars

\* ------------------------------------------- size planner properties
RECURSIVE Concat(_)
Concat(ss) == IF ss = <<>> THEN <<>> ELSE Head(ss) \o Concat(Tail(ss))

\* the series visited for the gaps of every TSDB, in visiting order
Visited ==
    Concat([t \in DOMAIN sized.tsdbsWithGaps |-> Concat(sized.tsdbsWithGaps[t].gaps)])

RECURSIVE SumSizes(_)
SumSizes(series) ==
    IF series = <<>> THEN 0 ELSE SeriesSize(Head(series).chks) + SumSizes(Tail(series))

\* sizedSeriesIter returned its batches
Returned == sized.pc = "done" /\ sized.res.kind = "ok"

\* C27: when sizedSeriesIter returns without error, the returned batches hold
\* the visited series once each in visiting order, no batch is empty, a batch
\* holds series of one gap of its TSDB, its size is the sum of the sizes of
\* its series, and a batch of several series is not above the target size.
C27_BatchesPartitionTheSeries ==
    Returned =>
        LET bs == sized.res.batches
        IN  /\ sized.res.n = Len(bs)
            /\ Concat([i \in 1..Len(bs) |-> bs[i].series]) = Visited
            /\ \A i \in 1..Len(bs) :
                  /\ Len(bs[i].series) > 0
                  /\ \A j \in 1..Len(bs[i].series) :
                        /\ bs[i].series[j].tsdb = bs[i].tsdb
                        /\ bs[i].series[j].gap = bs[i].series[1].gap
                  /\ bs[i].size = SumSizes(bs[i].series)
                  /\ Len(bs[i].series) > 1 => bs[i].size <= sized.targetTaskSizeBytes

\* a gap was cut: a batch of two series within the target is followed by a
\* batch of one series of the same gap that alone is above the target
C27_Witness ==
    /\ Returned
    /\ \E i \in 1..(Len(sized.res.batches) - 1) :
          LET b1 == sized.res.batches[i]
              b2 == sized.res.batches[i + 1]
          IN  /\ Len(b1.series) = 2
              /\ Len(b2.series) = 1
              /\ b2.size > sized.targetTaskSizeBytes
              /\ b2.series[1].gap = b1.series[1].gap
              /\ b2.tsdb = b1.tsdb
====
